---- MODULE Spec2Model ----
(***************************************************************************)
(* Model of bot.py: the voice pipeline handle_voice (download, transcode,  *)
(* transcribe, translate, reply, synthesize, send, cleanup), the help     *)
(* reply handle_text and the retention sweep cleanup_old_files, sharing   *)
(* the downloads directory.                                                *)
(*                                                                         *)
(* Scheduling: everything runs on one asyncio event loop.  A coroutine    *)
(* gives up the loop only at an await (get_file, download_to_drive,       *)
(* reply_text, send_audio, asyncio.sleep); the code between two awaits    *)
(* runs without interleaving.  The application is built without           *)
(* concurrent_updates and the handlers are blocking, so one update is      *)
(* handled at a time.                                                      *)
(*                                                                         *)
(* Environment: every call into the transport, the codec, the engines and *)
(* the file system can raise; unlink raises on the paths in locked.        *)
(***************************************************************************)
EXTENDS Integers, Sequences, FiniteSets, TLC

(* ------------------------------ bounds -------------------------------- *)
\* voice updates the dispatcher hands to handle_voice in a run
NumReq == 2
\* number of times the clock advances in a run
MaxTicks == 1

(* ------------------------- program constants -------------------------- *)
\* timedelta(days=1), in seconds
RetentionAge == 86400
\* asyncio.sleep(3600)
SweepInterval == 3600

Req == 1..NumReq
\* transport file identifiers get_file can return
FileIds == {"a", "a_vi"}
Kinds == {"raw", "transcoded", "synthesized"}
\* a path that holds no file
Absent == 0 - 1
\* the clock when the process starts
StartTime == RetentionAge + SweepInterval

DOWNLOADS_DIR == "downloads/"

\* fault variant: the synthesized file gets the extension of the raw one
Suffix_SameExtension(kind) ==
    CASE kind = "raw" -> ".ogg"
      [] kind = "transcoded" -> ".wav"
      [] kind = "synthesized" -> "_vi.ogg"

Suffix(kind) ==
    CASE kind = "raw" -> ".ogg"
      [] kind = "transcoded" -> ".wav"
      [] kind = "synthesized" -> "_vi.mp3"

\* DOWNLOADS_DIR / f"{file_id}.ogg", f"{file_id}.wav", f"{file_id}_vi.mp3"
ArtifactPath(id, kind) == DOWNLOADS_DIR \o id \o Suffix(kind)

\* [ogg_path, wav_path, tts_path]
PathsOf(id) ==
    << ArtifactPath(id, "raw"), ArtifactPath(id, "transcoded"),
       ArtifactPath(id, "synthesized") >>

AllPaths == { ArtifactPath(i, k) : i \in FileIds, k \in Kinds }

\* ogg_path = wav_path = tts_path = None
NoPaths == << >>

(* ------------------------------ texts --------------------------------- *)
UsageText == "Send me a voice message and I'll translate it."
HelpText == "Send me a voice message (Khmer) and I'll translate it into Vietnamese."
EmptyText == "I couldn't transcribe the audio. Try a clearer recording."
\* The literals of bot.py hold characters outside ASCII (the flag and the
\* loudspeaker emoji, as this copy of the file encodes them).  Strings here
\* are ASCII, so each run of such characters is written as a stand-in of
\* the same number of characters.
\* the 8 characters before " Khmer (transcript)"
FlagKH == "<flagKH>"
\* the 8 characters before " Vietnamese (translation)"
FlagVN == "<flagVN>"
\* the 4 characters before " Vietnamese (TTS)"
Speaker == "<sp>"

\* caption=" ... Vietnamese (TTS)"
TtsCaption == Speaker \o " Vietnamese (TTS)"
\* what recognize_google can return for speech it recognised
Transcripts == {"suostei"}
\* what translator.translate can return
Translations == {"Xin chao"}
\* khmer_text = f"[Google Speech Recognition error: {e}]"
RequestErrorText == "[Google Speech Recognition error: quota]"

\* f"... Khmer (transcript):\n{khmer_text}\n\n... Vietnamese (translation):\n{vietnamese_text}"
SuccessText(k, v) ==
    FlagKH \o " Khmer (transcript):\n" \o k \o "\n\n"
           \o FlagVN \o " Vietnamese (translation):\n" \o v

\* f"Something went wrong: {e}"
ErrorText(e) == "Something went wrong: " \o e

VARIABLES
    files,        \* the downloads directory: path -> st_mtime, or Absent
    locked,       \* the paths on which unlink() raises (in use, no permission)
    now,          \* datetime.now()
    ticks,        \* how often the clock has advanced
    spc,          \* cleanup_old_files: "run" (at the top of the loop), "sleep", "dead"
    wakeAt,       \* when asyncio.sleep(3600) returns
    sweep,        \* what the last sweep pass saw and did
    pc,           \* per update: the statement its handler's run is at
    voice,        \* msg.voice is set
    paths,        \* [ogg_path, wav_path, tts_path], or NoPaths
    khmer,        \* khmer_text
    viet,         \* vietnamese_text
    err,          \* the exception the except clause caught
    yielded,      \* the slot's last step ended in an await
    raised,       \* an exception leaves the handler
    log,          \* the operations the run invoked, in order, with their outcome
    replies       \* what the requester received, in order

sweeperVars == << spc, wakeAt, sweep >>
reqVars == << pc, voice, paths, khmer, viet, err, yielded, raised, log, replies >>
vars == << files, locked, now, ticks, spc, wakeAt, sweep, pc, voice, paths, khmer, viet,
           err, yielded, raised, log, replies >>

(* --------------------------- the directory ---------------------------- *)
Present(f) == { p \in AllPaths : f[p] # Absent }

\* path.exists()
Exists(f, p) == f[p] # Absent

\* writing a file: it exists and its st_mtime is the time of the write
Written(f, p, t) == [f EXCEPT ![p] = t]

\* the directory after unlink succeeded on every path of ps
Removed(f, ps) == [p \in AllPaths |-> IF p \in ps THEN Absent ELSE f[p]]

\* what a run of an earlier process, killed before its finally block, left
\* behind: the artifacts it had written so far (they are written in the
\* order raw, transcoded, synthesized), the first two older than the
\* retention age, the last exactly as old as the retention age
Leftovers ==
    { [p \in AllPaths |->
         IF p = ArtifactPath("a", "raw") /\ n >= 1 THEN StartTime - RetentionAge - SweepInterval
         ELSE IF p = ArtifactPath("a", "transcoded") /\ n >= 2 THEN StartTime - RetentionAge - SweepInterval
         ELSE IF p = ArtifactPath("a", "synthesized") /\ n >= 3 THEN StartTime - RetentionAge
         ELSE Absent] : n \in 0..3 }

\* the paths unlink() can raise on during a run: none, or one file (a
\* transcoded or a synthesized one)
Lockable ==
    { {}, {ArtifactPath("a", "transcoded")}, {ArtifactPath("a", "synthesized")} }

\* sweep, while the sweeper sleeps after a pass: ran, deleted / failed (the
\* pass unlinked an old entry / had unlink raise on one), aborted (the
\* outer except caught an error: the pass was cut short), keptYoung (the
\* pass went through the whole listing and saw an entry that was not old),
\* afterFailure (the pass before it had an unlink that raised), afterAbort
\* (the pass before it was cut short), tookLive
\* (the pass unlinked a file written since this process started: an
\* artifact of a request that has not yet run its own cleanup)
NoSweep == [ran |-> FALSE, deleted |-> FALSE, failed |-> FALSE, aborted |-> FALSE,
            keptYoung |-> FALSE, afterFailure |-> FALSE, afterAbort |-> FALSE,
            tookLive |-> FALSE]

\* the process has started: the sweeper's task is at the top of its loop
\* and no handler runs
Started ==
    /\ now = StartTime
    /\ ticks = 0
    /\ spc = "run"
    /\ wakeAt = 0
    /\ sweep = NoSweep
    /\ voice = [r \in Req |-> FALSE]
    /\ paths = [r \in Req |-> NoPaths]
    /\ khmer = [r \in Req |-> ""]
    /\ viet = [r \in Req |-> ""]
    /\ err = [r \in Req |-> ""]
    /\ yielded = [r \in Req |-> FALSE]
    /\ raised = [r \in Req |-> FALSE]
    /\ log = [r \in Req |-> << >>]
    /\ replies = [r \in Req |-> << >>]

Init ==
    /\ Started
    /\ files \in Leftovers
    /\ locked \in Lockable
    /\ pc = [r \in Req |-> "idle"]

(* --------------------------- the event loop --------------------------- *)
\* the statements that are an await
AwaitPcs == {"reply_usage", "get_file", "download", "reply_empty", "reply_text",
             "send_audio", "except", "reply_help"}

\* the update of r has no message (an edited message, a channel post):
\* that is the one way the statements before the first await raise
MessageMissing(r) == err[r] = "check_voice"

\* the handler of r is suspended in an await.  With no message, the
\* statement of the except clause raises before it awaits anything.
AtAwait(r) == pc[r] \in AwaitPcs /\ ~(pc[r] = "except" /\ MessageMissing(r))

\* no handler is between two awaits: another task may run
LoopFree == \A r \in Req : pc[r] \in {"idle", "done"} \/ AtAwait(r) \/ yielded[r]

(* ------------------------------ the clock ----------------------------- *)
\* every task waits (for its timer, for the transport): nothing is runnable
\* and the sweeper's timer is not due
LoopIdle ==
    /\ spc # "run"
    /\ spc = "sleep" => now < wakeAt
    /\ \A r \in Req : pc[r] \in {"idle", "done"} \/ AtAwait(r)

\* time passes while the loop is idle: just long enough for the sweeper's
\* sleep to end, or long enough for every file on disk to become old.  (The
\* code between two awaits takes no time at this scale.)
ShortWait == SweepInterval
LongWait == RetentionAge + SweepInterval

Tick ==
    /\ ticks < MaxTicks
    /\ LoopIdle
    /\ \E d \in {ShortWait, LongWait} : now' = now + d
    /\ ticks' = ticks + 1
    /\ UNCHANGED << files, locked, sweeperVars, reqVars >>

(* ------------------------- cleanup_old_files -------------------------- *)
\* fault variant: the comparison is the wrong way round
IsOld_Reversed(mtime, cutoff) == mtime > cutoff

\* fault variant: a file exactly as old as the retention age counts as old
IsOld_OrEqual(mtime, cutoff) == mtime <= cutoff

\* datetime.fromtimestamp(file.stat().st_mtime) < cutoff
IsOld(mtime, cutoff) == mtime < cutoff

\* cutoff = now - timedelta(days=1)
Cutoff(t) == t - RetentionAge

\* fault variant: one try/except around the whole for loop, so that an
\* unlink that raises ends the pass
SweepDeleted_StopAtFailure(old, seen, lk) ==
    IF old \cap seen \cap lk = {} THEN old \cap seen ELSE {}

\* the entries the pass unlinks: the old ones it reached, but for those
\* whose unlink raised (caught per entry)
SweepDeleted(old, seen, lk) == (old \cap seen) \ lk

\* fault variant: the error leaves the while loop
AfterPass_Dies(failed, aborted) == IF failed \/ aborted THEN "dead" ELSE "sleep"

\* both except clauses swallow the error; the loop goes on to asyncio.sleep
AfterPass(failed, aborted) == "sleep"

\* the entries the for loop can have dealt with.  A pass that is not cut
\* short deals with all of them.  The outer except cuts the pass short when
\* DOWNLOADS_DIR.iterdir() raises (no entry was reached) or when is_file(),
\* stat() or fromtimestamp() raises on an entry: the entries listed before
\* it, in whatever order the directory gives them, have been dealt with,
\* that entry and the ones after it have not.
Reached(present, aborted) ==
    IF aborted
    THEN { s \in SUBSET present : s # present \/ s = {} }
    ELSE { present }

\* one pass of the loop body up to the sleep
SweepPass ==
    /\ spc = "run"
    /\ LoopFree
    /\ \E aborted \in BOOLEAN : \E seen \in Reached(Present(files), aborted) :
         LET cutoff == Cutoff(now)
             old == { p \in Present(files) : IsOld(files[p], cutoff) }
             failed == old \cap seen \cap locked
         IN /\ files' = Removed(files, SweepDeleted(old, seen, locked))
            /\ spc' = AfterPass(failed # {}, aborted)
            /\ wakeAt' = now + SweepInterval
            /\ sweep' = [ran |-> TRUE,
                         deleted |-> SweepDeleted(old, seen, locked) # {},
                         failed |-> failed # {},
                         aborted |-> aborted,
                         keptYoung |-> ~aborted /\ seen \ old # {},
                         afterFailure |-> sweep.afterFailure,
                         afterAbort |-> sweep.afterAbort,
                         tookLive |-> \E q \in SweepDeleted(old, seen, locked) :
                                         files[q] >= StartTime]
    /\ UNCHANGED << locked, now, ticks, reqVars >>

\* asyncio.sleep(3600) returns
SweepWake ==
    /\ spc = "sleep"
    /\ now >= wakeAt
    /\ LoopFree
    /\ spc' = "run"
    /\ sweep' = [NoSweep EXCEPT !.afterFailure = sweep.failed,
                                !.afterAbort = sweep.aborted]
    /\ UNCHANGED << files, locked, now, ticks, wakeAt, reqVars >>

(* ---------------------------- handle_voice ---------------------------- *)
Ev(op, ok) == [op |-> op, ok |-> ok]

Reply(kind, text) == [kind |-> kind, text |-> text]

\* the slot moves to statement p; ev is appended to its log; y: the step
\* ended in an await
Goto(r, p, ev, y) ==
    /\ pc' = [pc EXCEPT ![r] = p]
    /\ log' = [log EXCEPT ![r] = Append(@, ev)]
    /\ yielded' = [yielded EXCEPT ![r] = y]

\* where an exception raised by op inside the try block is caught
ExceptTarget(op) == "except"

\* an exception raised inside the try block reaches "except Exception as e"
Raise(r, op, y) ==
    /\ Goto(r, ExceptTarget(op), Ev(op, FALSE), y)
    /\ err' = [err EXCEPT ![r] = op]

Send(r, kind, text) == replies' = [replies EXCEPT ![r] = Append(@, Reply(kind, text))]

\* the sweeper has set its timer at least once
FirstPassDone == wakeAt >= StartTime

\* the dispatcher hands the next update to its handler, one update at a
\* time, in the order of arrival: a voice update to handle_voice, a text
\* update to handle_text.  The sweeper's task is created in post_init,
\* before polling starts, so its first pass has run by then.
Dispatch(r) ==
    /\ pc[r] = "idle"
    /\ FirstPassDone
    /\ \A q \in Req : q < r => pc[q] = "done"
    /\ \/ /\ \E v \in BOOLEAN : voice' = [voice EXCEPT ![r] = v]
          /\ pc' = [pc EXCEPT ![r] = "check_voice"]
       \/ /\ voice' = voice
          /\ pc' = [pc EXCEPT ![r] = "reply_help"]
    /\ UNCHANGED << files, locked, now, ticks, sweeperVars, paths, khmer, viet, err, yielded,
                    raised, log, replies >>

\* handle_text: await update.message.reply_text("Send me a voice message
\* (Khmer) ..."); nothing catches an exception of the reply (of the call
\* itself, when the update has no message)
HandleText(r) ==
    /\ pc[r] = "reply_help"
    /\ \/ /\ Goto(r, "helped", Ev("reply_help", TRUE), TRUE)
          /\ Send(r, "help", HelpText)
          /\ UNCHANGED raised
       \/ /\ Goto(r, "helped", Ev("reply_help", FALSE), TRUE)
          /\ raised' = [raised EXCEPT ![r] = TRUE]
          /\ UNCHANGED replies
    /\ UNCHANGED << files, locked, now, ticks, sweeperVars, voice, paths, khmer, viet, err >>

\* fault variant: the test of msg.voice is missing
CheckVoice_NoTest(r) ==
    /\ pc[r] = "check_voice"
    /\ pc' = [pc EXCEPT ![r] = "get_file"]
    /\ UNCHANGED << files, locked, now, ticks, sweeperVars, voice, paths, khmer, viet, err,
                    yielded, raised, log, replies >>

\* msg = update.message; chat_id = update.effective_chat.id; if not
\* msg.voice.  With update.message None, msg.voice raises AttributeError
\* inside the try block.
CheckVoice(r) ==
    /\ pc[r] = "check_voice"
    /\ \/ /\ pc' = [pc EXCEPT ![r] = IF voice[r] THEN "get_file" ELSE "reply_usage"]
          /\ UNCHANGED << err, yielded, log >>
       \/ Raise(r, "check_voice", FALSE)
    /\ UNCHANGED << files, locked, now, ticks, sweeperVars, voice, paths, khmer, viet,
                    raised, replies >>

\* await msg.reply_text("Send me a voice message ..."); return
ReplyUsage(r) ==
    /\ pc[r] = "reply_usage"
    /\ \/ /\ Goto(r, "finally", Ev("reply_usage", TRUE), TRUE)
          /\ Send(r, "usage", UsageText)
          /\ UNCHANGED err
       \/ /\ Raise(r, "reply_usage", TRUE)
          /\ UNCHANGED replies
    /\ UNCHANGED << files, locked, now, ticks, sweeperVars, voice, paths, khmer, viet, raised >>

\* tg_file = await msg.voice.get_file(); the three filenames
GetFile(r) ==
    /\ pc[r] = "get_file"
    /\ \/ /\ \E id \in FileIds : paths' = [paths EXCEPT ![r] = PathsOf(id)]
          /\ Goto(r, "download", Ev("get_file", TRUE), TRUE)
          /\ UNCHANGED err
       \/ /\ Raise(r, "get_file", TRUE)
          /\ UNCHANGED paths
    /\ UNCHANGED << files, locked, now, ticks, sweeperVars, voice, khmer, viet, raised, replies >>

\* await tg_file.download_to_drive(str(ogg_path)); a failed download may
\* leave a partly written file
Download(r) ==
    /\ pc[r] = "download"
    /\ \/ /\ files' = Written(files, paths[r][1], now)
          /\ Goto(r, "transcode", Ev("download", TRUE), TRUE)
          /\ UNCHANGED err
       \/ /\ \E partial \in BOOLEAN :
               files' = IF partial THEN Written(files, paths[r][1], now) ELSE files
          /\ Raise(r, "download", TRUE)
    /\ UNCHANGED << locked, now, ticks, sweeperVars, voice, paths, khmer, viet, raised, replies >>

\* AudioSegment.from_file(ogg_path); audio.export(wav_path, format="wav")
\* from_file raises when the file is gone; a failed export may leave a
\* partly written file
Transcode(r) ==
    /\ pc[r] = "transcode"
    /\ \/ /\ Exists(files, paths[r][1])
          /\ files' = Written(files, paths[r][2], now)
          /\ Goto(r, "transcribe", Ev("transcode", TRUE), FALSE)
          /\ UNCHANGED err
       \/ /\ \E partial \in BOOLEAN :
               files' = IF partial /\ Exists(files, paths[r][1])
                        THEN Written(files, paths[r][2], now) ELSE files
          /\ Raise(r, "transcode", FALSE)
    /\ UNCHANGED << locked, now, ticks, sweeperVars, voice, paths, khmer, viet, raised, replies >>

\* fault variant: the test of khmer_text is missing
AfterTranscribe_AlwaysTranslate(text) == "translate"

\* if not khmer_text: reply "I couldn't transcribe ..." and return
AfterTranscribe(text) == IF text = "" THEN "reply_empty" ELSE "translate"

\* what the recognition step leaves in khmer_text: the recognised text,
\* "" on sr.UnknownValueError, the bracketed message on sr.RequestError
TranscribeOutcomes ==
    { [event |-> "transcribe", text |-> t] : t \in Transcripts }
      \cup { [event |-> "no_speech", text |-> ""],
             [event |-> "request_error", text |-> RequestErrorText] }

\* sr.AudioFile(wav_path), recognizer.record, recognizer.recognize_google
\* with its two except clauses, and the test of khmer_text
Transcribe(r) ==
    /\ pc[r] = "transcribe"
    /\ \/ /\ Exists(files, paths[r][2])
          /\ \E o \in TranscribeOutcomes :
               /\ khmer' = [khmer EXCEPT ![r] = o.text]
               /\ Goto(r, AfterTranscribe(o.text), Ev(o.event, o.event = "transcribe"), FALSE)
          /\ UNCHANGED err
       \/ /\ Raise(r, "transcribe", FALSE)
          /\ UNCHANGED khmer
    /\ UNCHANGED << files, locked, now, ticks, sweeperVars, voice, paths, viet, raised, replies >>

\* await msg.reply_text("I couldn't transcribe the audio. ..."); return
ReplyEmpty(r) ==
    /\ pc[r] = "reply_empty"
    /\ \/ /\ Goto(r, "finally", Ev("reply_empty", TRUE), TRUE)
          /\ Send(r, "empty", EmptyText)
          /\ UNCHANGED err
       \/ /\ Raise(r, "reply_empty", TRUE)
          /\ UNCHANGED replies
    /\ UNCHANGED << files, locked, now, ticks, sweeperVars, voice, paths, khmer, viet, raised >>

\* vietnamese_text = translator.translate(khmer_text)
Translate(r) ==
    /\ pc[r] = "translate"
    /\ \/ /\ \E v \in Translations : viet' = [viet EXCEPT ![r] = v]
          /\ Goto(r, "reply_text", Ev("translate", TRUE), FALSE)
          /\ UNCHANGED err
       \/ /\ Raise(r, "translate", FALSE)
          /\ UNCHANGED viet
    /\ UNCHANGED << files, locked, now, ticks, sweeperVars, voice, paths, khmer, raised, replies >>

\* await msg.reply_text(reply)
ReplyText(r) ==
    /\ pc[r] = "reply_text"
    /\ \/ /\ Goto(r, "synthesize", Ev("reply_text", TRUE), TRUE)
          /\ Send(r, "success", SuccessText(khmer[r], viet[r]))
          /\ UNCHANGED err
       \/ /\ Raise(r, "reply_text", TRUE)
          /\ UNCHANGED replies
    /\ UNCHANGED << files, locked, now, ticks, sweeperVars, voice, paths, khmer, viet, raised >>

\* fault variant: the inner try/except around the TTS step is missing
OnTtsFailure_Propagates == "except"

\* except Exception as e: logger.warning("TTS failed: %s", e)
OnTtsFailure == "finally"

\* gTTS(text=vietnamese_text, lang="vi"); tts.save(str(tts_path)); a failed
\* save may leave a partly written file
Synthesize(r) ==
    /\ pc[r] = "synthesize"
    /\ \/ /\ files' = Written(files, paths[r][3], now)
          /\ Goto(r, "send_audio", Ev("synthesize", TRUE), FALSE)
          /\ UNCHANGED err
       \/ /\ \E partial \in BOOLEAN :
               files' = IF partial THEN Written(files, paths[r][3], now) ELSE files
          /\ Goto(r, OnTtsFailure, Ev("synthesize", FALSE), FALSE)
          /\ err' = [err EXCEPT ![r] = IF OnTtsFailure = "except" THEN "synthesize" ELSE @]
    /\ UNCHANGED << locked, now, ticks, sweeperVars, voice, paths, khmer, viet, raised, replies >>

\* with open(tts_path, "rb") as f: await context.bot.send_audio(...)
SendAudio(r) ==
    /\ pc[r] = "send_audio"
    /\ \/ /\ Goto(r, "finally", Ev("send_audio", TRUE), TRUE)
          /\ Send(r, "audio", TtsCaption)
          /\ UNCHANGED err
       \/ /\ Goto(r, OnTtsFailure, Ev("send_audio", FALSE), TRUE)
          /\ err' = [err EXCEPT ![r] = IF OnTtsFailure = "except" THEN "send_audio" ELSE @]
          /\ UNCHANGED replies
    /\ UNCHANGED << files, locked, now, ticks, sweeperVars, voice, paths, khmer, viet, raised >>

\* fault variant: the error notice is sent from the end of the finally
\* block, after the artifacts are deleted
Except_AfterCleanup(r) ==
    \/ /\ pc[r] = "except"
       /\ pc' = [pc EXCEPT ![r] = "finally"]
       /\ UNCHANGED << files, locked, now, ticks, sweeperVars, voice, paths, khmer, viet,
                       err, yielded, raised, log, replies >>
    \/ /\ pc[r] = "cleaned_up"
       /\ err[r] # ""
       /\ \A i \in DOMAIN log[r] : log[r][i].op # "reply_error"
       /\ Goto(r, "cleaned_up", Ev("reply_error", TRUE), TRUE)
       /\ Send(r, "error", ErrorText(err[r]))
       /\ UNCHANGED << files, locked, now, ticks, sweeperVars, voice, paths, khmer, viet,
                       err, raised >>

\* except Exception as e: await update.message.reply_text(f"Something went
\* wrong: {e}"); when this reply raises too (it always does when the update
\* has no message) the exception leaves the handler
Except(r) ==
    /\ pc[r] = "except"
    /\ \/ /\ ~MessageMissing(r)
          /\ Goto(r, "finally", Ev("reply_error", TRUE), TRUE)
          /\ Send(r, "error", ErrorText(err[r]))
          /\ UNCHANGED raised
       \/ /\ Goto(r, "finally", Ev("reply_error", FALSE), ~MessageMissing(r))
          /\ raised' = [raised EXCEPT ![r] = TRUE]
          /\ UNCHANGED replies
    /\ UNCHANGED << files, locked, now, ticks, sweeperVars, voice, paths, khmer, viet, err >>

\* for file_path in [ogg_path, wav_path, tts_path]: if file_path ...
CleanupTargets(ps) == { ps[i] : i \in DOMAIN ps }

\* the targets the loop of the finally block has dealt with when exists()
\* raises on the target at index stop (stop = Len(ps) + 1: on none)
CleanupReached(ps, stop) == { ps[i] : i \in { j \in DOMAIN ps : j < stop } }

\* finally: for file_path in [ogg_path, wav_path, tts_path]: every target
\* that exists is unlinked; an unlink that raises is logged and the loop
\* goes on.  file_path.exists() is outside that try: when it raises (stat
\* failing for another reason than a missing file) the exception leaves the
\* finally block and the handler, and that target and the ones after it are
\* not unlinked.  With the paths still None nothing is tested.
Cleanup(r) ==
    /\ pc[r] = "finally"
    /\ \E stop \in 1..(Len(paths[r]) + 1) :
         LET cut == stop <= Len(paths[r])
             targets == { p \in CleanupTargets(paths[r]) \cap CleanupReached(paths[r], stop) :
                            Exists(files, p) }
         IN /\ files' = Removed(files, targets \ locked)
            /\ raised' = [raised EXCEPT ![r] = @ \/ cut]
            /\ log' = [log EXCEPT ![r] = Append(@, Ev("cleanup", TRUE))]
    /\ pc' = [pc EXCEPT ![r] = "cleaned_up"]
    /\ yielded' = [yielded EXCEPT ![r] = FALSE]
    /\ UNCHANGED << locked, now, ticks, sweeperVars, voice, paths, khmer, viet, err,
                    replies >>

\* the handler returns (or the exception leaves it); its locals are gone
Return(r) ==
    /\ pc[r] \in {"cleaned_up", "helped"}
    /\ pc' = [pc EXCEPT ![r] = "done"]
    /\ voice' = [voice EXCEPT ![r] = FALSE]
    /\ paths' = [paths EXCEPT ![r] = NoPaths]
    /\ khmer' = [khmer EXCEPT ![r] = ""]
    /\ viet' = [viet EXCEPT ![r] = ""]
    /\ err' = [err EXCEPT ![r] = ""]
    /\ yielded' = [yielded EXCEPT ![r] = FALSE]
    /\ raised' = [raised EXCEPT ![r] = FALSE]
    /\ log' = [log EXCEPT ![r] = << >>]
    /\ replies' = [replies EXCEPT ![r] = << >>]
    /\ UNCHANGED << files, locked, now, ticks, sweeperVars >>

Next ==
    \/ Tick
    \/ SweepPass
    \/ SweepWake
    \/ \E r \in Req : Dispatch(r)
    \/ \E r \in Req : HandleText(r)
    \/ \E r \in Req : CheckVoice(r)
    \/ \E r \in Req : ReplyUsage(r)
    \/ \E r \in Req : GetFile(r)
    \/ \E r \in Req : Download(r)
    \/ \E r \in Req : Transcode(r)
    \/ \E r \in Req : Transcribe(r)
    \/ \E r \in Req : ReplyEmpty(r)
    \/ \E r \in Req : Translate(r)
    \/ \E r \in Req : ReplyText(r)
    \/ \E r \in Req : Synthesize(r)
    \/ \E r \in Req : SendAudio(r)
    \/ \E r \in Req : Except(r)
    \/ \E r \in Req : Cleanup(r)
    \/ \E r \in Req : Return(r)

Spec == Init /\ [][Next]_vars

\* the runs of the process in which one update arrives (no handler is ever
\* started for the others)
SingleInit ==
    /\ Started
    /\ files \in Leftovers
    /\ locked \in Lockable
    /\ pc = [r \in Req |-> IF r = 1 THEN "idle" ELSE "done"]

SingleSpec == SingleInit /\ [][Next]_vars

(* ------------------------------ scheduling ---------------------------- *)
\* the statements of a handler that run without an await: the blocking
\* calls return, and the event loop then goes on
SyncStep(r) ==
    \/ CheckVoice(r)
    \/ MessageMissing(r) /\ Except(r)
    \/ Transcode(r)
    \/ Transcribe(r)
    \/ Translate(r)
    \/ Synthesize(r)
    \/ Cleanup(r)
    \/ Return(r)

\* what the event loop guarantees: time passes while the loop is idle, a
\* timer that is due fires, a task that is ready to run is run.  Nothing is
\* assumed of the transport: an update may never arrive and an await on the
\* transport may never return.
Fairness ==
    /\ WF_vars(Tick)
    /\ WF_vars(SweepWake)
    /\ WF_vars(SweepPass)
    /\ \A r \in Req : WF_vars(SyncStep(r))

\* the start-up state the progress of the sweeper is followed from: one
\* update is to come, the directory holds all three artifacts of a killed
\* run, and unlink raises on one of them
LiveInit ==
    /\ SingleInit
    /\ \A k \in Kinds : Exists(files, ArtifactPath("a", k))
    /\ locked = {ArtifactPath("a", "transcoded")}

LiveSpec == LiveInit /\ [][Next]_vars /\ Fairness

\* the start-up state the loop of the sweeper is followed from: one update
\* is to come, the directory holds the raw and the transcoded artifact of a
\* killed run, and unlink raises on the transcoded one
LoopInit ==
    /\ SingleInit
    /\ Present(files) = {ArtifactPath("a", "raw"), ArtifactPath("a", "transcoded")}
    /\ locked = {ArtifactPath("a", "transcoded")}

LoopSpec == LoopInit /\ [][Next]_vars /\ Fairness

(* ===================== what a finished run has done ==================== *)
\* the run of r logged op with outcome ok
Has(r, op, ok) == \E i \in DOMAIN log[r] : log[r][i] = Ev(op, ok)

\* the run of r invoked op, whatever came of it
Invoked(r, op) == \E i \in DOMAIN log[r] : log[r][i].op = op

\* how many replies of the kinds K the requester of r received
Count(r, K) == Cardinality({ i \in DOMAIN replies[r] : replies[r][i].kind \in K })

PrimaryKinds == {"success", "empty", "error"}

\* the three artifacts of r's request, once get_file has named them
ArtifactsOf(r) == { paths[r][i] : i \in DOMAIN paths[r] }

Finished(r) == pc[r] = "cleaned_up"

\* the failure ev was followed by the error notice and the cleanup only
AbortedAt(r, ev) ==
    \E i \in DOMAIN log[r] :
        /\ log[r][i] = ev
        /\ Len(log[r]) = i + 2
        /\ log[r][i + 1].op = "reply_error"
        /\ log[r][i + 2].op = "cleanup"

\* sub occurs in text
Contains(text, sub) ==
    \E i \in 1..(Len(text) - Len(sub) + 1) : SubSeq(text, i, i + Len(sub) - 1) = sub

(* ================================ C1 ================================== *)
\* C1, with deletion as the best effort the specification prescribes (an
\* unlink that raises is logged and swallowed, and its file stays): once
\* handle_voice has finished, each of the request's three artifacts is
\* absent from the downloads directory unless its unlink raised in the
\* finally block, whatever branch was taken.
C1_NoArtifactRemainsUnlessUnlinkRaised ==
    \A r \in Req : Finished(r) =>
        \A p \in ArtifactsOf(r) : Exists(files, p) => p \in locked

(* ================================ C2 ================================== *)
RepliesInOrder(r) ==
    /\ Count(r, {"audio"}) <= 1
    /\ \A i \in DOMAIN replies[r] :
         replies[r][i].kind = "audio" =>
            \E j \in 1..(i - 1) : replies[r][j].kind = "success"

\* C2 as stated: every voice message gets exactly one primary reply, at most
\* one audio reply, and the audio reply only after the success text.
C2_ExactlyOnePrimaryReply ==
    \A r \in Req : Finished(r) /\ voice[r] =>
        /\ Count(r, PrimaryKinds) = 1
        /\ RepliesInOrder(r)

\* C2, amended: a voice message never gets more than one primary reply; when
\* its run has finished it has got exactly one, unless the delivery of the
\* error notice from the except clause itself raised, and then it has got
\* none; at most one audio reply, and only after the success text.
C2_OnePrimaryReplyUnlessNoticeFailed ==
    \A r \in Req : voice[r] =>
        /\ Count(r, PrimaryKinds) <= 1
        /\ RepliesInOrder(r)
        /\ Finished(r) =>
             Count(r, PrimaryKinds) = (IF Has(r, "reply_error", FALSE) THEN 0 ELSE 1)

\* a finished run that delivered the success text and then the audio
C2_Witness ==
    \E r \in Req :
        /\ Finished(r)
        /\ voice[r]
        /\ Count(r, PrimaryKinds) = 1
        /\ Count(r, {"audio"}) = 1

(* ================================ C3 ================================== *)
\* the failures of Download, Transcode and Transcribe; for Transcribe both
\* an exception of the recognition step and the engine's request error
EarlyFailures ==
    { Ev("download", FALSE), Ev("transcode", FALSE), Ev("transcribe", FALSE),
      Ev("request_error", FALSE) }

\* C3: when Download, Transcode or Transcribe fails (for Transcribe also when
\* the recognition engine reports a request error), the run is aborted:
\* Translate and Synthesize are never invoked, neither the success text nor
\* an audio reply is sent, the error notice is sent, and cleanup follows
\* directly.
C3_EarlyFailureAborts ==
    \A r \in Req : \A ev \in EarlyFailures :
        Finished(r) /\ Has(r, ev.op, ev.ok) =>
            /\ ~Invoked(r, "translate")
            /\ ~Invoked(r, "synthesize")
            /\ Count(r, {"success", "audio"}) = 0
            /\ AbortedAt(r, ev)

(* ================================ C4 ================================== *)
\* C4, with deletion as the best effort the specification prescribes: when
\* Translate fails, no reply other than one error notice is sent (none at
\* all when the delivery of that notice raises), the transcript+translation
\* text is not sent, Synthesize is never invoked, no audio reply is sent,
\* and the raw and the transcoded artifact are each deleted before
\* handle_voice finishes unless its unlink raises.
C4_TranslateFailureAbortsUnlessUnlinkRaised ==
    \A r \in Req : Finished(r) /\ Has(r, "translate", FALSE) =>
        /\ [i \in DOMAIN replies[r] |-> replies[r][i].kind] =
              (IF Has(r, "reply_error", TRUE) THEN << "error" >> ELSE << >>)
        /\ AbortedAt(r, Ev("translate", FALSE))
        /\ ~Invoked(r, "reply_text")
        /\ ~Invoked(r, "synthesize")
        /\ \A i \in 1..2 : Exists(files, paths[r][i]) => paths[r][i] \in locked

(* ================================ C5 ================================== *)
\* C5 as stated: an empty transcript gets the "couldn't transcribe" notice
\* as its primary reply; Translate and Synthesize are never invoked, no audio
\* reply is sent, cleanup follows, and the except clause is not entered.
C5_EmptyTranscriptNotice ==
    \A r \in Req : Finished(r) /\ Has(r, "no_speech", FALSE) =>
        /\ replies[r] = << Reply("empty", EmptyText) >>
        /\ ~Invoked(r, "translate")
        /\ ~Invoked(r, "synthesize")
        /\ ~Invoked(r, "reply_error")

\* C5, amended: an empty transcript never leads to Translate, Synthesize, the
\* success text or an audio reply, and the run goes to cleanup; the
\* "couldn't transcribe" notice is the one reply and the except clause is not
\* entered, unless the delivery of that notice raises: then the except
\* clause sends the error notice instead.
C5_EmptyTranscriptNoticeUnlessDeliveryFailed ==
    \A r \in Req : Finished(r) /\ Has(r, "no_speech", FALSE) =>
        /\ ~Invoked(r, "translate")
        /\ ~Invoked(r, "synthesize")
        /\ Count(r, {"success", "audio"}) = 0
        /\ Invoked(r, "reply_empty")
        /\ Has(r, "reply_empty", TRUE) =>
              /\ replies[r] = << Reply("empty", EmptyText) >>
              /\ ~Invoked(r, "reply_error")
        /\ Has(r, "reply_empty", FALSE) =>
              /\ AbortedAt(r, Ev("reply_empty", FALSE))
              /\ Count(r, {"empty"}) = 0

\* no speech was recognised and the notice was delivered
C5_Witness ==
    \E r \in Req :
        /\ Finished(r)
        /\ Has(r, "no_speech", FALSE)
        /\ replies[r] = << Reply("empty", EmptyText) >>

(* ================================ C6 ================================== *)
TtsFailed(r) == Has(r, "synthesize", FALSE) \/ Has(r, "send_audio", FALSE)

\* C6, with deletion as the best effort the specification prescribes: when
\* Synthesize or the delivery of the audio fails, the failure is swallowed:
\* no error notice, no audio reply, the text reply is the single primary
\* reply, nothing is raised out of the handler, and cleanup runs, removing
\* the synthesized artifact if one exists unless its unlink raises.
C6_TtsFailureSwallowedUnlessUnlinkRaised ==
    \A r \in Req : Finished(r) /\ TtsFailed(r) =>
        /\ replies[r] = << Reply("success", SuccessText(khmer[r], viet[r])) >>
        /\ ~Invoked(r, "reply_error")
        /\ ~raised[r]
        /\ log[r][Len(log[r])].op = "cleanup"
        /\ Exists(files, paths[r][3]) => paths[r][3] \in locked

(* ================================ C7 ================================== *)
\* C7: the two non-success outcomes of Transcribe are kept apart: no speech
\* leads to the "couldn't transcribe" notice, a request error of the engine
\* leads to the error notice, and neither leads to the success text.
C7_TranscribeOutcomesApart ==
    \A r \in Req : Finished(r) =>
        /\ Has(r, "no_speech", FALSE) =>
              Invoked(r, "reply_empty") /\ ~Invoked(r, "reply_text")
        /\ Has(r, "request_error", FALSE) =>
              /\ Invoked(r, "reply_error")
              /\ ~Invoked(r, "reply_empty")
              /\ ~Invoked(r, "reply_text")

(* ================================ C8 ================================== *)
AllSucceeded(r) ==
    /\ Has(r, "download", TRUE)
    /\ Has(r, "transcode", TRUE)
    /\ Has(r, "transcribe", TRUE)
    /\ Has(r, "translate", TRUE)
    /\ Has(r, "reply_text", TRUE)
    /\ Has(r, "synthesize", TRUE)
    /\ Has(r, "send_audio", TRUE)

\* the text reply was sent before Synthesize started
TextBeforeSynthesize(r) ==
    \A i, j \in DOMAIN log[r] :
        log[r][i].op = "reply_text" /\ log[r][j].op = "synthesize" => i < j

SuccessReplies(r) ==
    /\ Len(replies[r]) = 2
    /\ replies[r][1].kind = "success"
    /\ Contains(replies[r][1].text, khmer[r])
    /\ Contains(replies[r][1].text, viet[r])
    /\ khmer[r] \in Transcripts
    /\ viet[r] \in Translations
    /\ replies[r][2].kind = "audio"

\* C8, with deletion as the best effort the specification prescribes: when
\* all five stages and both deliveries succeed there is one text reply
\* carrying transcript and translation, then one audio reply, the text is
\* sent before Synthesize starts, and afterwards each of the three
\* artifacts is gone unless its unlink raised.
C8_SuccessPathUnlessUnlinkRaised ==
    \A r \in Req : Finished(r) /\ AllSucceeded(r) =>
        /\ SuccessReplies(r)
        /\ TextBeforeSynthesize(r)
        /\ \A p \in ArtifactsOf(r) : Exists(files, p) => p \in locked

(* ================================ C9 ================================== *)
\* a step that is one sweep pass
IsSweepPass == spc = "run" /\ spc' # "run"

\* p is a file older than the cutoff of a pass that starts now
OlderThanCutoff(p) == files[p] # Absent /\ files[p] < now - RetentionAge

\* C9 as stated: after a sweep pass every file that was older than the
\* cutoff is absent, and every file that was not older is left in place.
C9_SweepDeletesOldKeepsYoung ==
    [][IsSweepPass =>
        \A p \in AllPaths :
            /\ OlderThanCutoff(p) => files'[p] = Absent
            /\ ~OlderThanCutoff(p) => files'[p] = files[p]]_vars

\* C9, amended: after a sweep pass every file that was older than the cutoff
\* is absent unless its unlink raised or the pass was cut short (the listing
\* raised, or reading an entry did: the old entries listed before it are
\* deleted, the others stay); every file that was not older than the
\* cutoff, one exactly as old as the retention age included, is left in
\* place with its modification time.
C9_SweepDeletesOldUnlessUnlinkRaised ==
    [][IsSweepPass =>
        \A p \in AllPaths :
            /\ OlderThanCutoff(p) /\ p \notin locked /\ ~sweep'.aborted =>
                  files'[p] = Absent
            /\ ~OlderThanCutoff(p) => files'[p] = files[p]]_vars

\* the sweeper sleeps after a complete pass that deleted an old file and
\* left one that was not old
C9_Witness ==
    /\ spc = "sleep"
    /\ sweep.ran
    /\ ~sweep.aborted
    /\ sweep.deleted
    /\ sweep.keptYoung

(* ================================ C10 ================================= *)
\* C10: a pass in which the unlink of an old entry raises still deletes
\* every other old entry (all of them when nothing else cuts the pass
\* short), and the sweeper goes on to sleep and to its next pass: it is
\* never dead, its sleep ends when the interval has passed, and the pass
\* then runs as soon as the loop is free.
C10_SweepSurvivesDeletionError ==
    /\ [][IsSweepPass /\ sweep'.failed =>
            /\ ~sweep'.aborted =>
                  \A p \in AllPaths \ locked : OlderThanCutoff(p) => files'[p] = Absent
            /\ spc' = "sleep"
            /\ wakeAt' = now + SweepInterval]_vars
    /\ [](spc \in {"run", "sleep"})
    /\ [](sweep.failed /\ spc = "sleep" /\ now >= wakeAt /\ LoopFree => ENABLED SweepWake)
    /\ [](sweep.afterFailure /\ spc = "run" /\ LoopFree => ENABLED SweepPass)

\* the pass after a pass with a failed unlink has run; in it an unlink
\* raised again and another old entry was deleted
C10_Witness ==
    /\ sweep.ran
    /\ sweep.afterFailure
    /\ sweep.failed
    /\ sweep.deleted
(* ================================ C11 ================================= *)
\* a step that is the finally block of r's run
IsCleanupOf(r) == pc[r] = "finally" /\ pc'[r] = "cleaned_up"

\* one of r's artifacts is not on disk: never created, or already deleted
SomeArtifactGone(r) == \E p \in ArtifactsOf(r) : ~Exists(files, p)

\* C11, with deletion as the best effort the specification prescribes: when
\* the cleanup step runs while one of the request's artifacts was never
\* created or is already deleted, it raises nothing, sends no reply,
\* deletes each remaining artifact of the request unless its unlink raises
\* (the error is logged and the loop goes on to the next artifact), and
\* leaves every other file unchanged.
C11_CleanupIdempotentUnlessUnlinkRaised ==
    [][\A r \in Req : IsCleanupOf(r) /\ SomeArtifactGone(r) =>
          /\ raised'[r] = raised[r]
          /\ replies'[r] = replies[r]
          /\ \A p \in ArtifactsOf(r) :
                files'[p] = (IF p \in locked THEN files[p] ELSE Absent)
          /\ \A p \in AllPaths \ ArtifactsOf(r) : files'[p] = files[p]]_vars

(* ================================ C12 ================================= *)
\* the run of r has started and has not returned
InFlight(r) == pc[r] \notin {"idle", "done"}

\* C12: two runs of handle_voice that are in flight at the same time name
\* no artifact path in common.
C12_NoSharedPaths ==
    \A r, q \in Req :
        r # q /\ InFlight(r) /\ InFlight(q) => ArtifactsOf(r) \cap ArtifactsOf(q) = {}

\* the case C12 is about: two runs in flight at the same time
C12_Overlap == \E r, q \in Req : r # q /\ InFlight(r) /\ InFlight(q)
(* ================================ C15 ================================= *)
\* the operations of get_file and the five pipeline stages, as logged
StageOps == {"get_file", "download", "transcode", "transcribe", "no_speech",
             "request_error", "translate", "synthesize", "send_audio"}

NoStageInvoked(r) == \A op \in StageOps : ~Invoked(r, op)

\* the run of handle_text for r is over
Helped(r) == pc[r] = "helped"

\* the run for r is one of a text update or of a voice update without payload
NoPayload(r) == InFlight(r) /\ ~voice[r] /\ pc[r] # "check_voice"

\* a step of r's handler leaves the downloads directory as it is
RunKeepsFiles(r) == pc'[r] # pc[r] => files' = files

\* C15 as stated: a text message gets exactly one reply, the static help
\* text; a message routed to handle_voice without audio payload gets exactly
\* one reply, the usage hint; neither invokes a pipeline stage, and neither
\* creates, modifies or deletes a file in the downloads directory.
C15_HelpReplyOnly ==
    /\ [](\A r \in Req :
            /\ Helped(r) => replies[r] = << Reply("help", HelpText) >>
            /\ Finished(r) /\ ~voice[r] => replies[r] = << Reply("usage", UsageText) >>
            /\ NoPayload(r) => NoStageInvoked(r))
    /\ [][\A r \in Req : NoPayload(r) => RunKeepsFiles(r)]_vars

\* C15, amended: a text message gets the static help text as its one reply,
\* or no reply when the delivery of the help text raises; a message routed
\* to handle_voice without audio payload gets the usage hint as its one
\* reply, or, when the delivery of the hint raises, the error notice from the
\* except clause instead (no reply when that delivery raises too); neither
\* invokes a pipeline stage, and neither creates, modifies or deletes a file
\* in the downloads directory.
C15_HelpReplyUnlessDeliveryFailed ==
    /\ [](\A r \in Req :
            /\ Helped(r) =>
                  replies[r] = (IF Has(r, "reply_help", TRUE)
                                THEN << Reply("help", HelpText) >> ELSE << >>)
            /\ Finished(r) /\ ~voice[r] =>
                  replies[r] = (IF Has(r, "reply_usage", TRUE)
                                  THEN << Reply("usage", UsageText) >>
                                ELSE IF Has(r, "reply_error", TRUE)
                                  THEN << Reply("error", ErrorText("reply_usage")) >>
                                ELSE << >>)
            /\ NoPayload(r) => NoStageInvoked(r) /\ Len(replies[r]) <= 1)
    /\ [][\A r \in Req : NoPayload(r) => RunKeepsFiles(r)]_vars

\* handle_text has delivered the help text for a text update, with files
\* of an earlier run in the downloads directory
C15_Witness ==
    \E r \in Req :
        /\ Helped(r)
        /\ replies[r] = << Reply("help", HelpText) >>
        /\ Present(files) # {}
(* ================================ C13 ================================= *)
\* the process runs long enough for the sweeper's sleep to end
CanWake == now >= wakeAt \/ ticks < MaxTicks

\* C13: the sweeper never terminates on its own.  It is never dead; every
\* pass, one that an error cut short or in which an unlink raised
\* included, ends in the
\* sleep of the sweep interval; while the process runs on, the sleep ends
\* and the loop is back at its top; and at the top of the loop the next
\* pass runs.
C13_SweeperNeverTerminates ==
    /\ [](spc \in {"run", "sleep"})
    /\ [][IsSweepPass => spc' = "sleep" /\ wakeAt' = now + SweepInterval]_vars
    /\ (spc = "sleep" /\ sweep.ran /\ CanWake) ~> (spc = "run")
    /\ (spc = "run") ~> (spc = "sleep" /\ sweep.ran)

\* a pass has run after a pass that an error cut short
C13_Witness ==
    /\ spc = "sleep"
    /\ sweep.ran
    /\ sweep.afterAbort
(* ================================ C14 ================================= *)
\* p is a file that was in the directory when the process started: what a
\* run that was killed before its finally block left behind
Orphan(p) == files[p] # Absent /\ files[p] < StartTime

\* the paths at which the process can find such a file
LeftoverPaths == UNION { Present(f) : f \in Leftovers }

\* the process runs long enough for another sweep pass
CanPass == spc = "run" \/ CanWake

\* the orphans older than the cutoff whose unlink does not raise
OldOrphans == { p \in LeftoverPaths : Orphan(p) /\ OlderThanCutoff(p) /\ p \notin locked }

\* there are such orphans, no pass has been cut short since the sweeper
\* last woke, and another pass will come
Reclaimable == OldOrphans # {} /\ ~sweep.aborted /\ CanPass

\* every orphan that was old has been removed (the set only grows with
\* time, but for the orphans that are removed or written over), or a pass
\* has been cut short
Reclaimed == OldOrphans = {} \/ sweep.aborted

\* C14 as stated: an orphan is eventually deleted by the sweeper once it is
\* older than the cutoff (the sweeper going on, no error cutting its pass
\* short and the unlink not raising), and nothing but a sweep pass removes an orphan.
C14_OrphanReclaimedBySweeperOnly ==
    /\ Reclaimable ~> Reclaimed
    /\ [][\A p \in AllPaths : Orphan(p) /\ files'[p] = Absent => IsSweepPass]_vars

\* C14, amended: an orphan is eventually deleted by the sweeper once it is
\* older than the cutoff (the sweeper going on, no error cutting its pass
\* short and the unlink not raising); before that, nothing removes or changes it but a sweep pass
\* or a step of a later run of handle_voice that got the same file
\* identifier from get_file (a stage of it writes over the file, its cleanup
\* unlinks it).
C14_OrphanReclaimed ==
    /\ Reclaimable ~> Reclaimed
    /\ [][\A p \in AllPaths : Orphan(p) /\ files'[p] # files[p] =>
              \/ IsSweepPass
              \/ \E r \in Req : p \in ArtifactsOf(r) /\ pc'[r] # pc[r]]_vars

\* after the clock advanced, a pass has deleted an orphan and no file
\* written since the process started
C14_Witness ==
    /\ spc = "sleep"
    /\ now > StartTime
    /\ sweep.ran
    /\ sweep.deleted
    /\ ~sweep.tookLive
    /\ \A p \in AllPaths : ~Orphan(p)
(* ================================ C16 ================================= *)
\* the sweeper has slept the sweep interval since its last pass
SleptInterval == FirstPassDone /\ now >= wakeAt

\* C16: every sweep pass, the first one after startup included, comes after
\* a sleep of the sweep interval.  (The loop of cleanup_old_files runs the
\* pass first and sleeps last, so the first pass comes before any sleep.)
C16_SleepBeforeEveryPass == [][IsSweepPass => SleptInterval]_vars
(* ================================ C17 ================================= *)
\* the run of r is at one of the five pipeline stages
InStage(r) == pc[r] \in {"download", "transcode", "transcribe", "translate", "synthesize"}

\* the next step of r's handler
StepOf(r) ==
    \/ CheckVoice(r) \/ ReplyUsage(r) \/ GetFile(r) \/ Download(r) \/ Transcode(r)
    \/ Transcribe(r) \/ ReplyEmpty(r) \/ Translate(r) \/ ReplyText(r) \/ Synthesize(r)
    \/ SendAudio(r) \/ Except(r) \/ Cleanup(r) \/ Return(r)

\* the sweeper's next step is due: its sleep has ended, or it is at the top
\* of its loop
SweeperDue == (spc = "sleep" /\ now >= wakeAt) \/ spc = "run"

\* C17: while a request is at a pipeline stage, the sweeper takes its next
\* step as soon as it is due, and the request can advance whatever the
\* sweeper is doing.
C17_StagesDoNotBlockSweeper ==
    \A r \in Req : InStage(r) =>
        /\ SweeperDue => ENABLED (SweepWake \/ SweepPass)
        /\ ENABLED StepOf(r)
(* ================================ C18 ================================= *)
\* file identifiers to try the naming on: those of the model and some that
\* end like a suffix or are a prefix of one another
SampleIds == FileIds \cup {"", "_vi", "a.ogg", "a.wav", "a_vi.mp3", "aa"}

SamplePaths == { ArtifactPath(i, k) : i \in SampleIds, k \in Kinds }

\* for every path, the pairs (id, kind) that name it
Decodings ==
    [p \in SamplePaths |->
        { ik \in SampleIds \X Kinds : ArtifactPath(ik[1], ik[2]) = p }]

\* two pairs name the same path only when they are the same pair
NamingInjective ==
    \A i1, i2 \in SampleIds : \A k1, k2 \in Kinds :
        ArtifactPath(i1, k1) = ArtifactPath(i2, k2) => i1 = i2 /\ k1 = k2

\* C18: the path is a function of (id, kind) and it is injective: two pairs
\* name the same path only when they are the same pair; every path a run
\* works on is the path of its file id and of one kind, and every file in
\* the downloads directory names one pair only.
C18_PathsInjective ==
    /\ NamingInjective
    /\ \A r \in Req : paths[r] # NoPaths =>
          /\ \E id \in FileIds : paths[r] = PathsOf(id)
          /\ \A i \in DOMAIN paths[r] : Cardinality(Decodings[paths[r][i]]) = 1
    /\ \A p \in Present(files) : Cardinality(Decodings[p]) = 1

\* a run for the file id "a_vi" has written its raw artifact a_vi.ogg while
\* the synthesized artifact a_vi.mp3 of the file id "a" is in the directory
C18_Witness ==
    \E r \in Req :
        /\ paths[r] = PathsOf("a_vi")
        /\ Exists(files, ArtifactPath("a_vi", "raw"))
        /\ Exists(files, ArtifactPath("a", "synthesized"))
(* ================================ C19 ================================= *)
\* the last operation the run of r logged is its cleanup
CleanupIsLast(r) == log[r] # << >> /\ log[r][Len(log[r])].op = "cleanup"

\* a step in which handle_voice returns for r
IsReturnOf(r) == pc[r] = "cleaned_up" /\ pc'[r] = "done"

\* a step in which the requester of r receives a reply
IsReplyTo(r) == Len(replies'[r]) > Len(replies[r])

\* a step of r's run that takes one of its artifacts from the directory
RunDeletes(r) ==
    /\ pc'[r] # pc[r]
    /\ \E p \in ArtifactsOf(r) : Exists(files, p) /\ ~Exists(files', p)

\* C19: cleanup is the last step of every run of handle_voice.  Once the
\* cleanup has run nothing else is logged and the run is over; the run
\* returns only from there; a reply, the error notice of the except clause
\* included, is sent only while the cleanup has not started; and the run
\* deletes its artifacts in the cleanup step only.
C19_CleanupLast ==
    /\ [](\A r \in Req : Invoked(r, "cleanup") => CleanupIsLast(r) /\ Finished(r))
    /\ [][\A r \in Req :
            /\ IsReturnOf(r) => CleanupIsLast(r)
            /\ pc[r] \in {"finally", "cleaned_up"} => ~IsReplyTo(r)
            /\ IsReplyTo(r) => ~Invoked(r, "cleanup")
            /\ RunDeletes(r) => IsCleanupOf(r)]_vars

\* a failed stage, with artifacts on disk: the error notice was delivered,
\* then the cleanup ran and removed them
C19_Witness ==
    \E r \in Req :
        /\ Finished(r)
        /\ Has(r, "transcode", TRUE)
        /\ AbortedAt(r, Ev("translate", FALSE))
        /\ Has(r, "reply_error", TRUE)
        /\ replies[r] = << Reply("error", ErrorText("translate")) >>
        /\ \A p \in ArtifactsOf(r) : ~Exists(files, p)
====
